---- MODULE Spec2Model ----
(***************************************************************************)
(* Push-notification relay (chat-app-nodeJs).                              *)
(*                                                                         *)
(* The repository holds two revisions of the same Express server:          *)
(*   "server"  - src/server.js            (integration flag admin.apps)    *)
(*   "part"    - src/unnamed/part_000     (integration flag firebaseEnabled)*)
(* Both are modelled; `variant` says which one is running.                 *)
(*                                                                         *)
(* JavaScript values are tagged records; a string is the sequence of its   *)
(* UTF-16 code units, so that .length and .substring are computed as the   *)
(* code computes them.  A request body is the object express.json() hands  *)
(* to the handler; a field it lacks reads as undefined.                    *)
(*                                                                         *)
(* A handler is split at each `await`: the Profile Store (Firestore) and   *)
(* the Push Sender (FCM) answer in a later step, and other requests may    *)
(* run in between.  The server keeps no state of its own between requests, *)
(* so one send-notification request is followed at a time, concurrently    *)
(* with the token-update requests, the only writers of the store.  At most *)
(* MaxInFlight requests are open (arrived, answer not yet delivered).      *)
(***************************************************************************)
EXTENDS Integers, Sequences, FiniteSets, TLC

VARIABLES
    variant,          \* which revision of the server is running
    firebaseEnabled,  \* part_000:15,35 / server.js: admin.apps.length > 0
    users,            \* Firestore collection 'users': userId -> document
    send,             \* the POST /send-notification request being followed
    pending,          \* token updates waiting for the store: the set() calls in flight
    tokRes,           \* the token update answered, its answer not yet delivered
    lastApplied,      \* history: per user, the upsert the store applied last
    fmt               \* a direct call of getNotificationBody

vars == <<variant, firebaseEnabled, users, send, pending, tokRes, lastApplied, fmt>>

\* ------------------------------------------- program constants and bounds
TruncAt == 100       \* message.length > 100, substring(0, 100)
PreviewAt == 50      \* message.substring(0, 50), message.length > 50
TokenPreviewAt == 20 \* fcmToken.substring(0, 20)
MaxMsgLen == 103     \* longest message text drawn
MaxInFlight == 2     \* requests between arrival and the delivery of their answer

\* ------------------------------------------------------ JavaScript values
Undefined == [t |-> "undefined"]
Str(s) == [t |-> "string", s |-> s]
Num(n) == [t |-> "number", n |-> n]
Bool(b) == [t |-> "boolean", b |-> b]
ServerTimestamp == [t |-> "timestamp"]

IsStr(v) == v.t = "string"

\* ToBoolean, as used by `!x`, `x || y`, `x ? a : b`
Truthy(v) ==
    CASE v.t = "undefined" -> FALSE
      [] v.t = "string" -> Len(v.s) > 0
      [] v.t = "number" -> v.n # 0
      [] v.t = "boolean" -> v.b
      [] OTHER -> TRUE

\* a || b
Or(a, b) == IF Truthy(a) THEN a ELSE b

Min(a, b) == IF a < b THEN a ELSE b

\* String.prototype.substring(from, to) on a sequence of code units
Substring(s, from, to) == SubSeq(s, from + 1, Min(to, Len(s)))

Ellipsis == <<".", ".", ".">>

\* a thrown Error: error.code (NoCode when the error carries none), error.message
NoCode == "undefined"
TypeErr(what) == [code |-> NoCode, message |-> what]

Throw(e) == [t |-> "throw", err |-> e]
IsThrow(v) == v.t = "throw"

\* `x.substring(...)`, `x.length` on a value: only a string has substring;
\* reading a property of undefined throws
SubstringOf(v, from, to) ==
    IF IsStr(v) THEN Str(Substring(v.s, from, to))
    ELSE Throw(TypeErr("substring is not a function"))

LengthOf(v) ==
    CASE v.t = "string" -> Num(Len(v.s))
      [] v.t = "undefined" -> Throw(TypeErr("Cannot read properties of undefined"))
      [] OTHER -> Undefined

\* `a > n` for a value a: undefined > n is false
GreaterThan(a, n) == a.t = "number" /\ a.n > n

\* x.toString() of a string or of a natural number
Digits == <<"0", "1", "2", "3", "4", "5", "6", "7", "8", "9">>
RECURSIVE Decimal(_)
Decimal(n) == IF n < 10 THEN <<Digits[n + 1]>> ELSE Decimal(n \div 10) \o <<Digits[(n % 10) + 1]>>
ToStringOf(v) == IF v.t = "number" THEN Str(Decimal(v.n)) ELSE v

\* --------------------------------------------------------------- literals
ImageT == Str(<<"i", "m", "a", "g", "e">>)
VideoT == Str(<<"v", "i", "d", "e", "o">>)
AudioT == Str(<<"a", "u", "d", "i", "o">>)
DocumentT == Str(<<"d", "o", "c", "u", "m", "e", "n", "t">>)
LocationT == Str(<<"l", "o", "c", "a", "t", "i", "o", "n">>)
TextT == Str(<<"t", "e", "x", "t">>)
StickerT == Str(<<"s", "t", "i", "c", "k", "e", "r">>)
UnknownT == Str(<<"u", "n", "k", "n", "o", "w", "n">>)

\* the emoji are two UTF-16 code units each
ImageLabel == Str(<<"\\uD83D", "\\uDCF7", " ", "S", "e", "n", "t", " ", "a", "n", " ",
                    "i", "m", "a", "g", "e">>)
VideoLabel == Str(<<"\\uD83C", "\\uDFA5", " ", "S", "e", "n", "t", " ", "a", " ",
                    "v", "i", "d", "e", "o">>)
AudioLabel == Str(<<"\\uD83C", "\\uDFB5", " ", "S", "e", "n", "t", " ", "a", "n", " ",
                    "a", "u", "d", "i", "o", " ", "m", "e", "s", "s", "a", "g", "e">>)
DocumentLabel == Str(<<"\\uD83D", "\\uDCC4", " ", "S", "e", "n", "t", " ", "a", " ",
                       "d", "o", "c", "u", "m", "e", "n", "t">>)
LocationLabel == Str(<<"\\uD83D", "\\uDCCD", " ", "S", "h", "a", "r", "e", "d", " ",
                       "l", "o", "c", "a", "t", "i", "o", "n">>)
NewMessage == Str(<<"N", "e", "w", " ", "m", "e", "s", "s", "a", "g", "e">>)

\* ------------------------------------------------- Notification Formatter
\* server.js:215-224
getNotificationBodyServer(message, messageType) ==
    CASE messageType = ImageT -> ImageLabel
      [] messageType = VideoT -> VideoLabel
      [] messageType = AudioT -> AudioLabel
      [] messageType = DocumentT -> DocumentLabel
      [] messageType = LocationT -> LocationLabel
      [] OTHER ->
            LET len == LengthOf(message) IN
            IF IsThrow(len) THEN len
            ELSE IF GreaterThan(len, TruncAt)
                 THEN Str(Substring(message.s, 0, TruncAt) \o Ellipsis)
                 ELSE message

\* mutant: the truncation starts one character early
getNotificationBodyPartEarly(message, messageType) ==
    CASE messageType = ImageT -> ImageLabel
      [] messageType = VideoT -> VideoLabel
      [] messageType = AudioT -> AudioLabel
      [] messageType = DocumentT -> DocumentLabel
      [] messageType = LocationT -> LocationLabel
      [] OTHER ->
            IF Truthy(message) /\ GreaterThan(LengthOf(message), TruncAt - 1)
            THEN Str(Substring(message.s, 0, TruncAt) \o Ellipsis)
            ELSE Or(message, NewMessage)

\* part_000:283-300
getNotificationBodyPart(message, messageType) ==
    CASE messageType = ImageT -> ImageLabel
      [] messageType = VideoT -> VideoLabel
      [] messageType = AudioT -> AudioLabel
      [] messageType = DocumentT -> DocumentLabel
      [] messageType = LocationT -> LocationLabel
      [] OTHER ->
            IF Truthy(message) /\ GreaterThan(LengthOf(message), TruncAt)
            THEN Str(Substring(message.s, 0, TruncAt) \o Ellipsis)
            ELSE Or(message, NewMessage)

getNotificationBody(message, messageType) ==
    IF variant = "server"
    THEN getNotificationBodyServer(message, messageType)
    ELSE getNotificationBodyPart(message, messageType)

\* ------------------------------------------------------------ input sets
Empty == Str(<<>>)
U1 == Str(<<"u", "1">>)
U2 == Str(<<"u", "2">>)
S1 == Str(<<"s", "1">>)
Ali == Str(<<"A", "l", "i">>)
ChatX == Str(<<"c", "h", "a", "t", "X">>)
ChatY == Str(<<"c", "h", "a", "t", "Y">>)
TokA == Str(<<"t", "o", "k", "A">>)
TokB == Str(<<"t", "o", "k", "B">>)
Ios == Str(<<"i", "o", "s">>)
Android == Str(<<"a", "n", "d", "r", "o", "i", "d">>)

\* a message text of n code units
Text(n) == Str(SubSeq([i \in 1..n |-> IF i % 2 = 1 THEN "a" ELSE "b"], 1, n))

UserIds == {U1}                       \* ids that token updates are sent for
RequiredFields == {"receiverId", "senderId", "senderName", "message", "chatId"}

\* request bodies of POST /send-notification (req.body after express.json())
FullBody ==
    [receiverId |-> U1, senderId |-> S1, senderName |-> Ali, message |-> Text(2),
     chatId |-> ChatX, messageType |-> Undefined]

\* bodies that pass the validation: for the id that registers tokens, with
\* either chat and with or without messageType; one for an id that never
\* registers; one whose message is a number
ValidBodies ==
    {[FullBody EXCEPT !.chatId = c, !.messageType = t] :
        c \in {ChatX, ChatY}, t \in {Undefined, ImageT}}
    \cup {[FullBody EXCEPT !.receiverId = U2]}
    \cup {[FullBody EXCEPT !.message = Num(7)]}

Blank(body, fields, v) ==
    [f \in DOMAIN body |-> IF f \in fields THEN v ELSE body[f]]

\* bodies that fail it: any required fields absent, or one of them empty
InvalidBodies ==
    {Blank(FullBody, fields, Undefined) : fields \in SUBSET RequiredFields \ {{}}}
    \cup {Blank(FullBody, {f}, Empty) : f \in RequiredFields}

SendBodies == ValidBodies \cup InvalidBodies

\* request bodies of POST /user/:userId/fcm-token
TokenBodies ==
    [fcmToken : {Undefined, Empty, TokA, TokB, Num(7)},
     deviceType : {Undefined, Android}]

\* what the collaborators can answer
DeliveryIds == {Str(<<"m", "s", "g", "/", "1">>)}
TokenNotRegistered == "messaging/registration-token-not-registered"
SenderErrors ==
    {[code |-> TokenNotRegistered, message |-> "Requested entity was not found."],
     [code |-> "messaging/internal-error", message |-> "Internal error encountered."]}
StoreErrors == {[code |-> "14", message |-> "14 UNAVAILABLE"]}

\* ------------------------------------------------------- Profile Store
DocFields == {"fcmToken", "deviceType", "isOnline", "activeChatId",
              "lastTokenUpdate", "lastActive"}
NoDoc == [exists |-> FALSE]
Doc(d) == [exists |-> TRUE, data |-> d]

\* documents the store may hold when the server starts (written by earlier
\* runs and by the client app, which owns isOnline / activeChatId)
InitDocs ==
    {NoDoc}
    \cup {Doc([fcmToken |-> Undefined, deviceType |-> Undefined, isOnline |-> Bool(FALSE),
               activeChatId |-> Undefined, lastTokenUpdate |-> Undefined,
               lastActive |-> Undefined])}
    \cup {Doc([fcmToken |-> TokA, deviceType |-> Ios, isOnline |-> p[1],
               activeChatId |-> p[2], lastTokenUpdate |-> ServerTimestamp,
               lastActive |-> ServerTimestamp]) :
            p \in {<<Bool(TRUE), ChatX>>, <<Bool(FALSE), ChatX>>, <<Undefined, ChatX>>,
                   <<Bool(TRUE), Undefined>>}}

\* db.collection('users').doc(id).get(): the snapshot (exists, data())
Get(id) == IF id \in DOMAIN users THEN users[id] ELSE NoDoc

\* mutant: set() without { merge: true } replaces the document
SetReplace(doc, data) ==
    Doc([f \in DocFields |-> IF f \in DOMAIN data THEN data[f] ELSE Undefined])

\* DocumentReference.set(data, { merge: true }): the fields given replace the
\* stored ones, every other stored field is kept, a missing document is created
SetMerge(doc, data) ==
    Doc([f \in DocFields |->
            IF f \in DOMAIN data THEN data[f]
            ELSE IF doc.exists THEN doc.data[f] ELSE Undefined])

\* ------------------------------------------- POST /send-notification
Idle == [pc |-> "idle"]

\* the requests that have arrived and whose answer is not yet delivered
InFlight ==
    (IF send.pc = "idle" THEN 0 ELSE 1) + Cardinality(pending)
        + (IF tokRes.pc = "idle" THEN 0 ELSE 1)
NoMessage == [sent |-> FALSE]

\* const { ..., messageType = 'text' } = req.body
MessageTypeOf(body) == IF body.messageType = Undefined THEN TextT ELSE body.messageType

\* mutant: the validation forgets chatId
MissingRequiredNoChat(body) ==
    \/ ~Truthy(body.receiverId)
    \/ ~Truthy(body.senderId)
    \/ ~Truthy(body.senderName)
    \/ ~Truthy(body.message)

\* !receiverId || !senderId || !senderName || !message || !chatId
MissingRequired(body) ==
    \/ ~Truthy(body.receiverId)
    \/ ~Truthy(body.senderId)
    \/ ~Truthy(body.senderName)
    \/ ~Truthy(body.message)
    \/ ~Truthy(body.chatId)

\* the 400 of the validation
ValidationError ==
    IF variant = "server"
    THEN [status |-> 400,
          json |-> [error |-> <<"Missing required fields:", "receiverId", "senderId",
                                "senderName", "message", "chatId">>]]
    ELSE [status |-> 400,
          json |-> [error |-> <<"Missing required fields">>,
                    required |-> <<"receiverId", "senderId", "senderName", "message",
                                   "chatId">>]]

\* mutant: the catch block without the TOKEN_INVALID branch
SendCatchAll(error, body) ==
    IF variant = "server"
    THEN [status |-> 500,
          json |-> [error |-> "Failed to send notification", details |-> error.message]]
    ELSE [status |-> 500,
          json |-> [error |-> "Failed to send notification", details |-> error.message,
                    code |-> IF error.code # NoCode THEN error.code ELSE "UNKNOWN_ERROR"]]

\* the catch block of the handler
SendCatch(error, body) ==
    IF error.code = TokenNotRegistered
    THEN IF variant = "server"
         THEN [status |-> 400,
               json |-> [error |-> "Invalid FCM token", code |-> "TOKEN_INVALID"]]
         ELSE [status |-> 400,
               json |-> [error |-> "Invalid or expired FCM token", code |-> "TOKEN_INVALID",
                         receiverId |-> body.receiverId]]
    ELSE IF variant = "server"
         THEN [status |-> 500,
               json |-> [error |-> "Failed to send notification",
                         details |-> error.message]]
         ELSE [status |-> 500,
               json |-> [error |-> "Failed to send notification",
                         details |-> error.message,
                         code |-> IF error.code # NoCode THEN error.code
                                  ELSE "UNKNOWN_ERROR"]]

\* mutant: the degraded answer claims a real send
SendDisabledFlagged(body) ==
    [status |-> 200,
     json |-> [success |-> TRUE, message |-> "Notification logged (Firebase disabled)",
               firebase |-> TRUE]]

\* the answer when the integration is off
SendDisabled(body) ==
    IF variant = "server"
    THEN [status |-> 200,
          json |-> [success |-> TRUE, message |-> "Notification logged (Firebase disabled)",
                    firebase |-> FALSE]]
    ELSE LET head == SubstringOf(body.message, 0, PreviewAt)
             len == LengthOf(body.message)
         IN IF IsThrow(head) THEN SendCatch(head.err, body)
            ELSE [status |-> 200,
                  json |-> [success |-> TRUE,
                            message |-> "Notification logged (Firebase disabled)",
                            data |-> [receiverId |-> body.receiverId,
                                      senderName |-> body.senderName,
                                      messagePreview |->
                                          Str(head.s \o (IF GreaterThan(len, PreviewAt)
                                                         THEN Ellipsis ELSE <<>>)),
                                      chatId |-> body.chatId],
                            firebase |-> FALSE]]

\* mutant: the unknown receiver answered like the missing token
ReceiverNotFoundAs400(body) ==
    IF variant = "server"
    THEN [status |-> 400, json |-> [error |-> "Receiver not found"]]
    ELSE [status |-> 400,
          json |-> [error |-> "Receiver not found", receiverId |-> body.receiverId]]

ReceiverNotFound(body) ==
    IF variant = "server"
    THEN [status |-> 404, json |-> [error |-> "Receiver not found"]]
    ELSE [status |-> 404,
          json |-> [error |-> "Receiver not found", receiverId |-> body.receiverId]]

NoTokenForReceiver(body) ==
    IF variant = "server"
    THEN [status |-> 400, json |-> [error |-> "No FCM token found for receiver"]]
    ELSE [status |-> 400,
          json |-> [error |-> "No FCM token found for receiver",
                    receiverId |-> body.receiverId]]

\* mutant: the gate ignores isOnline
ShouldSuppressOffline(userData, chatId) ==
    userData.activeChatId = chatId

\* mutant: the gate ignores the chat
ShouldSuppressOnline(userData, chatId) ==
    Truthy(Or(userData.isOnline, Bool(FALSE)))

\* isOnline && activeChat === chatId
ShouldSuppress(userData, chatId) ==
    /\ Truthy(Or(userData.isOnline, Bool(FALSE)))
    /\ userData.activeChatId = chatId

Skipped(body) ==
    IF variant = "server"
    THEN [status |-> 200,
          json |-> [success |-> TRUE,
                    message |-> "User is viewing this chat, notification skipped",
                    skipped |-> TRUE]]
    ELSE [status |-> 200,
          json |-> [success |-> TRUE,
                    message |-> "User is viewing this chat, notification skipped",
                    skipped |-> TRUE, receiverId |-> body.receiverId]]

\* the payload handed to admin.messaging().send (the fixed android / apns
\* blocks repeat title and body)
FcmMessage(body, fcmToken, notificationBody) ==
    [sent |-> TRUE,
     notification |-> [title |-> body.senderName, body |-> notificationBody],
     data |-> IF variant = "server"
              THEN [chatId |-> body.chatId, senderId |-> body.senderId,
                    senderName |-> body.senderName, messageType |-> MessageTypeOf(body),
                    type |-> "chat", click_action |-> "FLUTTER_NOTIFICATION_CLICK"]
              ELSE [chatId |-> ToStringOf(body.chatId),
                    senderId |-> ToStringOf(body.senderId),
                    senderName |-> ToStringOf(body.senderName),
                    messageType |-> ToStringOf(MessageTypeOf(body)),
                    type |-> "chat", click_action |-> "FLUTTER_NOTIFICATION_CLICK"],
     token |-> fcmToken]

Delivered(body, response, notificationBody) ==
    IF variant = "server"
    THEN [status |-> 200,
          json |-> [success |-> TRUE, messageId |-> response,
                    receiverId |-> body.receiverId, senderName |-> body.senderName,
                    firebase |-> TRUE]]
    ELSE [status |-> 200,
          json |-> [success |-> TRUE, messageId |-> response,
                    receiverId |-> body.receiverId, senderName |-> body.senderName,
                    notificationBody |-> notificationBody, firebase |-> TRUE]]

\* history kept with the request: the checks passed so far, in order
Validated == <<"validated">>
Enabled == Validated \o <<"enabled", "get">>
Read == Enabled \o <<"read">>
Exists == Read \o <<"exists">>
HasToken == Exists \o <<"hasToken">>
NotSuppressed == HasToken \o <<"notSuppressed">>
SenderCalled == NotSuppressed \o <<"send">>

\* how the collaborators answered the request, if they were asked
NotAsked == [kind |-> "none"]
StoreFailed(error) == [kind |-> "storeError", error |-> error]
SenderFailed(error) == [kind |-> "senderError", error |-> error]
SenderDelivered(id) == [kind |-> "delivered", id |-> id]

NeverApplied == [applied |-> FALSE]

\* history: the upsert that wrote the document a read returns
AppliedTo(id) == IF id \in DOMAIN lastApplied THEN lastApplied[id] ELSE NeverApplied

\* a request at its first await: the read of the profile is in flight
AwaitGet(body) ==
    [pc |-> "get", body |-> body, steps |-> Enabled]

\* a request at its second await: the sender has been called (calls counts
\* the invocations of admin.messaging().send)
AwaitSend(body, userData, seen, fcmMessage) ==
    [pc |-> "send", body |-> body, userData |-> userData, seen |-> seen,
     fcmMessage |-> fcmMessage, steps |-> SenderCalled, calls |-> 1]

\* a finished request: what was asked, what was read, what was handed to the
\* sender, how the collaborators answered and what was answered
Done(body, userData, seen, fcmMessage, calls, steps, outcome, res) ==
    [pc |-> "done", body |-> body, userData |-> userData, seen |-> seen,
     fcmMessage |-> fcmMessage, calls |-> calls, steps |-> steps,
     outcome |-> outcome, res |-> res]

\* the handler up to its first await
SendStart(body) ==
    /\ send.pc = "idle"
    /\ InFlight < MaxInFlight
    /\ IF MissingRequired(body)
       THEN send' = Done(body, NoDoc, NeverApplied, NoMessage, 0, <<>>, NotAsked,
                         ValidationError)
       ELSE IF ~firebaseEnabled
            THEN send' = Done(body, NoDoc, NeverApplied, NoMessage, 0, Validated, NotAsked,
                              SendDisabled(body))
            ELSE send' = AwaitGet(body)
    /\ UNCHANGED <<variant, firebaseEnabled, users, pending, tokRes, lastApplied, fmt>>

\* the store rejects the read
SendGetFails ==
    /\ send.pc = "get"
    /\ \E error \in StoreErrors :
            send' = Done(send.body, NoDoc, NeverApplied, NoMessage, 0, send.steps,
                         StoreFailed(error), SendCatch(error, send.body))
    /\ UNCHANGED <<variant, firebaseEnabled, users, pending, tokRes, lastApplied, fmt>>

\* from the answer of the store to the call of the sender
SendGot ==
    /\ send.pc = "get"
    /\ LET body == send.body
           userDoc == Get(body.receiverId)
           seen == AppliedTo(body.receiverId)
       IN IF ~userDoc.exists
          THEN send' = Done(body, userDoc, seen, NoMessage, 0, Read, NotAsked,
                            ReceiverNotFound(body))
          ELSE IF ~Truthy(userDoc.data.fcmToken)
          THEN send' = Done(body, userDoc, seen, NoMessage, 0, Exists, NotAsked,
                            NoTokenForReceiver(body))
          ELSE IF ShouldSuppress(userDoc.data, body.chatId)
          THEN send' = Done(body, userDoc, seen, NoMessage, 0, HasToken, NotAsked,
                            Skipped(body))
          ELSE LET notificationBody ==
                       getNotificationBody(body.message, MessageTypeOf(body))
               IN IF IsThrow(notificationBody)
                  THEN send' = Done(body, userDoc, seen, NoMessage, 0, NotSuppressed,
                                    NotAsked, SendCatch(notificationBody.err, body))
                  ELSE send' = AwaitSend(body, userDoc, seen,
                                         FcmMessage(body, userDoc.data.fcmToken,
                                                    notificationBody))
    /\ UNCHANGED <<variant, firebaseEnabled, users, pending, tokRes, lastApplied, fmt>>

\* the sender delivers
SendSent ==
    /\ send.pc = "send"
    /\ \E response \in DeliveryIds :
            send' = Done(send.body, send.userData, send.seen, send.fcmMessage, send.calls,
                         send.steps, SenderDelivered(response),
                         Delivered(send.body, response, send.fcmMessage.notification.body))
    /\ UNCHANGED <<variant, firebaseEnabled, users, pending, tokRes, lastApplied, fmt>>

\* mutant: a failed send is tried once more
SendFailsRetry ==
    /\ send.pc = "send"
    /\ \E error \in SenderErrors :
            send' = Done(send.body, send.userData, send.seen, send.fcmMessage,
                         send.calls + 1, send.steps, SenderFailed(error),
                         SendCatch(error, send.body))
    /\ UNCHANGED <<variant, firebaseEnabled, users, pending, tokRes, lastApplied, fmt>>

\* the sender fails
SendFails ==
    /\ send.pc = "send"
    /\ \E error \in SenderErrors :
            send' = Done(send.body, send.userData, send.seen, send.fcmMessage, send.calls,
                         send.steps, SenderFailed(error), SendCatch(error, send.body))
    /\ UNCHANGED <<variant, firebaseEnabled, users, pending, tokRes, lastApplied, fmt>>

\* the client has its answer; the next request is followed
SendClose ==
    /\ send.pc = "done"
    /\ send' = Idle
    /\ UNCHANGED <<variant, firebaseEnabled, users, pending, tokRes, lastApplied, fmt>>

\* ------------------------------------- POST /user/:userId/fcm-token
TokenDone(userId, body, res) ==
    [pc |-> "done", userId |-> userId, body |-> body, res |-> res]

\* the catch block of the handler
TokenCatch(error, userId) ==
    IF variant = "server"
    THEN [status |-> 500, json |-> [error |-> "Failed to update FCM token"]]
    ELSE [status |-> 500,
          json |-> [error |-> "Failed to update FCM token", details |-> error.message,
                    userId |-> userId]]

\* part_000:231, the preview that is logged: fcmToken ? fcmToken.substring(0, 20) + '...' : 'null'
TokenPreview(fcmToken) ==
    IF variant = "server" THEN Undefined
    ELSE IF Truthy(fcmToken)
         THEN LET head == SubstringOf(fcmToken, 0, TokenPreviewAt)
              IN IF IsThrow(head) THEN head ELSE Str(head.s \o Ellipsis)
         ELSE Str(<<"n", "u", "l", "l">>)

TokenRequired(userId, body) ==
    IF variant = "server"
    THEN [status |-> 400, json |-> [error |-> "fcmToken is required"]]
    ELSE [status |-> 400,
          json |-> [error |-> "fcmToken is required",
                    received |-> [userId |-> userId, deviceType |-> body.deviceType]]]

TokenDisabled(userId) ==
    IF variant = "server"
    THEN [status |-> 200,
          json |-> [success |-> TRUE, message |-> "FCM token received (Firebase disabled)",
                    firebase |-> FALSE]]
    ELSE [status |-> 200,
          json |-> [success |-> TRUE, message |-> "FCM token received (Firebase disabled)",
                    userId |-> userId, firebase |-> FALSE]]

TokenUpdated(userId, body) ==
    IF variant = "server"
    THEN [status |-> 200,
          json |-> [success |-> TRUE, message |-> "FCM token updated successfully",
                    userId |-> userId, firebase |-> TRUE]]
    ELSE [status |-> 200,
          json |-> [success |-> TRUE, message |-> "FCM token updated successfully",
                    userId |-> userId, deviceType |-> body.deviceType, firebase |-> TRUE]]

\* mutant: deviceType is written only when the request carries one
TokenDataKeepDevice(body) ==
    IF Truthy(body.deviceType)
    THEN [fcmToken |-> body.fcmToken, deviceType |-> body.deviceType,
          lastTokenUpdate |-> ServerTimestamp, isOnline |-> Bool(TRUE),
          lastActive |-> ServerTimestamp]
    ELSE [fcmToken |-> body.fcmToken, lastTokenUpdate |-> ServerTimestamp,
          isOnline |-> Bool(TRUE), lastActive |-> ServerTimestamp]

\* the object given to set(..., { merge: true })
TokenData(body) ==
    [fcmToken |-> body.fcmToken,
     deviceType |-> Or(body.deviceType, UnknownT),
     lastTokenUpdate |-> ServerTimestamp,
     isOnline |-> Bool(TRUE),
     lastActive |-> ServerTimestamp]

\* the handler up to its await: the set() call is in flight.  tokRes holds
\* the one token-update answer on its way to its client; the next step of a
\* token update waits for its delivery (TokenClose), which is always possible,
\* so the set() calls in flight are still applied in every order.  Two
\* requests in flight with the same userId and body are one element of pending.
TokenStart(userId, body) ==
    /\ InFlight < MaxInFlight
    /\ tokRes.pc = "idle"
    /\ LET preview == TokenPreview(body.fcmToken)
       IN IF IsThrow(preview)
          THEN /\ tokRes' = TokenDone(userId, body, TokenCatch(preview.err, userId))
               /\ UNCHANGED pending
          ELSE IF ~Truthy(body.fcmToken)
          THEN /\ tokRes' = TokenDone(userId, body, TokenRequired(userId, body))
               /\ UNCHANGED pending
          ELSE IF ~firebaseEnabled
          THEN /\ tokRes' = TokenDone(userId, body, TokenDisabled(userId))
               /\ UNCHANGED pending
          ELSE /\ pending' = pending \cup {[userId |-> userId, body |-> body]}
               /\ pending' # pending
               /\ UNCHANGED tokRes
    /\ UNCHANGED <<variant, firebaseEnabled, users, send, lastApplied, fmt>>

\* the store applies one of the set() calls in flight, and the handler answers
TokenSet(w) ==
    /\ w \in pending
    /\ tokRes.pc = "idle"
    /\ pending' = pending \ {w}
    /\ users' = [users EXCEPT ![w.userId] = SetMerge(@, TokenData(w.body))]
    /\ lastApplied' = [lastApplied EXCEPT ![w.userId] =
                          [applied |-> TRUE, body |-> w.body,
                           fresh |-> ~users[w.userId].exists]]
    /\ tokRes' = TokenDone(w.userId, w.body, TokenUpdated(w.userId, w.body))
    /\ UNCHANGED <<variant, firebaseEnabled, send, fmt>>

\* the client has its answer
TokenClose ==
    /\ tokRes.pc = "done"
    /\ tokRes' = Idle
    /\ UNCHANGED <<variant, firebaseEnabled, users, send, pending, lastApplied, fmt>>

\* the store rejects one of the set() calls in flight
TokenSetFails(w) ==
    /\ w \in pending
    /\ tokRes.pc = "idle"
    /\ pending' = pending \ {w}
    /\ \E error \in StoreErrors :
            tokRes' = TokenDone(w.userId, w.body, TokenCatch(error, w.userId))
    /\ UNCHANGED <<variant, firebaseEnabled, users, send, lastApplied, fmt>>

\* -------------------------------------------- a direct call of the formatter
NoCall == [called |-> FALSE]
FmtMessages == {Text(n) : n \in 0..MaxMsgLen} \cup {Undefined, Num(7)}
FmtTypes == {Undefined, TextT, StickerT, ImageT, VideoT, AudioT, DocumentT, LocationT}

FmtCall(message, messageType) ==
    /\ fmt' = [called |-> TRUE, message |-> message, messageType |-> messageType,
               result |-> getNotificationBody(message, messageType)]
    /\ UNCHANGED <<variant, firebaseEnabled, users, send, pending, tokRes, lastApplied>>

\* ------------------------------------------------------- specifications

Init ==
    /\ variant \in {"server", "part"}
    /\ firebaseEnabled \in BOOLEAN
    /\ users \in [UserIds -> InitDocs]
    /\ send = Idle
    /\ pending = {}
    /\ tokRes = Idle
    /\ lastApplied = [u \in UserIds |-> NeverApplied]
    /\ fmt = NoCall

Next ==
    \/ \E body \in SendBodies : SendStart(body)
    \/ SendGetFails
    \/ SendGot
    \/ SendSent
    \/ SendFails
    \/ SendClose
    \/ \E userId \in UserIds, body \in TokenBodies : TokenStart(userId, body)
    \/ \E w \in pending : TokenSet(w)
    \/ \E w \in pending : TokenSetFails(w)
    \/ TokenClose

Spec == Init /\ [][Next]_vars

FmtInit ==
    /\ variant \in {"server", "part"}
    /\ firebaseEnabled = FALSE
    /\ users = [u \in UserIds |-> NoDoc]
    /\ send = Idle
    /\ pending = {}
    /\ tokRes = Idle
    /\ lastApplied = [u \in UserIds |-> NeverApplied]
    /\ fmt = NoCall

FmtNext == \E message \in FmtMessages, messageType \in FmtTypes : FmtCall(message, messageType)

FmtSpec == FmtInit /\ [][FmtNext]_vars

\* ================================================================ claims
Range(seq) == {seq[i] : i \in 1..Len(seq)}
IsPrefix(p, q) == Len(p) <= Len(q) /\ SubSeq(q, 1, Len(p)) = p
NonEmptyString(v) == IsStr(v) /\ Len(v.s) > 0

\* the required fields that a body lacks or carries empty
MissingFields(body) == {f \in RequiredFields : ~Truthy(body[f])}
WellFormed(body) == \A f \in RequiredFields : NonEmptyString(body[f])

\* the field names a validation answer lists
ListedFields(res) ==
    IF "required" \in DOMAIN res.json THEN Range(res.json.required)
    ELSE Range(res.json.error) \cap RequiredFields

Answered == send.pc = "done"
StoreAsked == Answered /\ "get" \in Range(send.steps)
SenderAsked == send.pc \in {"send", "done"} /\ send.fcmMessage.sent
Has(res, key) == key \in DOMAIN res.json

\* ---------------------------------------------------------------- C1
\* C1 as stated: a send-notification request with a required field missing or
\* empty is answered 400, the answer lists exactly the fields missing from
\* that request, and neither the store nor the sender is called.
C1_AsStated ==
    (Answered /\ MissingFields(send.body) # {}) =>
        /\ send.res.status = 400
        /\ ListedFields(send.res) = MissingFields(send.body)
        /\ ~StoreAsked /\ ~SenderAsked

\* C1 (amended): such a request is answered 400, the answer lists all five
\* required fields whichever of them are missing, and neither the store nor
\* the sender is called, in either integration mode.
C1_ListsAllRequired ==
    (Answered /\ MissingFields(send.body) # {}) =>
        /\ send.res.status = 400
        /\ ListedFields(send.res) = RequiredFields
        /\ ~StoreAsked /\ ~SenderAsked

C1_Witness ==
    /\ Answered
    /\ MissingFields(send.body) = {"chatId"}
    /\ send.res.status = 400
    /\ firebaseEnabled

AtGate == send.pc \in {"send", "done"} /\ "hasToken" \in Range(send.steps)
Suppressed == Answered /\ Has(send.res, "skipped")

\* C3: for a valid request with the integration on and a receiver profile
\* with a token, the notification is suppressed exactly when the profile has
\* isOnline true and activeChatId equal to the request's chatId; a suppressed
\* request is answered success with skipped:true and the sender is not called.
C3_SuppressedIffViewing ==
    AtGate =>
        /\ Suppressed <=>
              /\ send.userData.data.isOnline = Bool(TRUE)
              /\ send.userData.data.activeChatId # Undefined
              /\ send.userData.data.activeChatId = send.body.chatId
        /\ Suppressed =>
              /\ send.res.status = 200
              /\ send.res.json.success = TRUE
              /\ send.res.json.skipped = TRUE
              /\ ~SenderAsked /\ send.calls = 0
        /\ ~Suppressed => SenderAsked

C3_Witness ==
    /\ Suppressed
    /\ send.userData.data.activeChatId = ChatX
    /\ send.body.chatId = ChatX

\* ---------------------------------------------------------------- C4
SenderError == Answered /\ send.outcome.kind = "senderError"

StoredDeviceType(body) ==
    IF body.deviceType = Undefined \/ body.deviceType = Empty THEN UnknownT
    ELSE body.deviceType

\* C5: with the integration on, after any interleaving of successful token
\* updates for a user (the first one for an unknown id creates the record) the
\* stored profile has the token of the update whose upsert was applied last,
\* isOnline true, and that update's deviceType, "unknown" when it gave none.
C5_LastUpsertWins ==
    \A u \in UserIds :
        lastApplied[u].applied =>
            /\ firebaseEnabled
            /\ users[u].exists
            /\ users[u].data.fcmToken = lastApplied[u].body.fcmToken
            /\ users[u].data.isOnline = Bool(TRUE)
            /\ users[u].data.deviceType = StoredDeviceType(lastApplied[u].body)

\* two updates were in flight together; the one with TokB was applied first
\* (onto a record that already existed), the one with TokA is still to come
C5_Witness ==
    /\ lastApplied[U1].applied /\ ~lastApplied[U1].fresh
    /\ lastApplied[U1].body.fcmToken = TokB
    /\ lastApplied[U1].body.deviceType = Undefined
    /\ users[U1].data.fcmToken = TokB
    /\ \E w \in pending : w.userId = U1 /\ w.body.fcmToken = TokA

\* ---------------------------------------------------------------- C6
\* this step is the store applying the upsert of request w, answered 200
Applies(w) ==
    /\ w \in pending
    /\ pending' = pending \ {w}
    /\ tokRes'.pc = "done"
    /\ tokRes'.res.status = 200

\* C6 as stated: a token update overwrites the token and leaves every field
\* absent from the request untouched: an update without deviceType leaves the
\* stored deviceType as it was, and every update leaves activeChatId as it was.
C6_AsStated ==
    [][\A w \in pending :
          (Applies(w) /\ users[w.userId].exists) =>
              /\ users'[w.userId].data.fcmToken = w.body.fcmToken
              /\ users'[w.userId].data.activeChatId = users[w.userId].data.activeChatId
              /\ w.body.deviceType = Undefined =>
                    users'[w.userId].data.deviceType = users[w.userId].data.deviceType
      ]_vars

\* C6 (amended): a token update overwrites the token, isOnline (true), both
\* timestamps and deviceType, which becomes "unknown" when the request carries
\* none (a stored deviceType is not kept); every other field, activeChatId in
\* particular, is left as it was.
C6_UpdateFrame ==
    [][\A w \in pending :
          Applies(w) =>
              /\ users'[w.userId].exists
              /\ users'[w.userId].data.fcmToken = w.body.fcmToken
              /\ users'[w.userId].data.deviceType = StoredDeviceType(w.body)
              /\ users'[w.userId].data.isOnline = Bool(TRUE)
              /\ users'[w.userId].data.lastTokenUpdate = ServerTimestamp
              /\ users'[w.userId].data.lastActive = ServerTimestamp
              /\ users'[w.userId].data.activeChatId =
                    (IF users[w.userId].exists THEN users[w.userId].data.activeChatId
                     ELSE Undefined)
      ]_vars

\* a record that held activeChatId (and deviceType "ios") has taken an update
\* without deviceType
C6_Witness ==
    /\ lastApplied[U1].applied
    /\ lastApplied[U1].body.deviceType = Undefined
    /\ users[U1].data.activeChatId = ChatX
    /\ users[U1].data.deviceType = UnknownT
    /\ tokRes.pc = "done" /\ tokRes.res.status = 200

\* ---------------------------------------------------------------- C7
\* the profile read came back without a record, or with a record without token
NoRecord == Answered /\ "read" \in Range(send.steps) /\ ~send.userData.exists
NoToken ==
    /\ Answered /\ "read" \in Range(send.steps) /\ send.userData.exists
    /\ ~Truthy(send.userData.data.fcmToken)

ReadFresh ==
    /\ send.pc \in {"send", "done"}
    /\ "read" \in Range(send.steps)
    /\ send.seen.applied /\ send.seen.fresh

\* C8: after a successful token update with token t for a user unknown until
\* then, a later valid send-notification to that user (its profile read
\* answered by the store) with messageType "text" and a message m of at most
\* 100 characters, for any chatId, calls the sender with token t and body m;
\* when the sender delivers, the answer is success:true with the sender's
\* delivery id.  The isOnline = true of the token update does not suppress it.
C8_RegisterThenNotify ==
    (/\ ReadFresh
     /\ WellFormed(send.body)
     /\ MessageTypeOf(send.body) = TextT
     /\ Len(send.body.message.s) <= TruncAt) =>
        /\ SenderAsked
        /\ send.fcmMessage.token = send.seen.body.fcmToken
        /\ send.fcmMessage.notification.body = send.body.message
        /\ (Answered /\ send.outcome.kind = "delivered") =>
              /\ send.res.status = 200
              /\ send.res.json.success = TRUE
              /\ send.res.json.messageId = send.outcome.id

C8_Witness ==
    /\ ReadFresh /\ Answered
    /\ send.outcome.kind = "delivered"
    /\ send.body.message = Text(2)
    /\ send.fcmMessage.token = TokB
    /\ send.res.status = 200

\* ---------------------------------------------------------------- C9
MediaTypes == {ImageT, VideoT, AudioT, DocumentT, LocationT}
TextCall == fmt.called /\ fmt.messageType \notin MediaTypes /\ IsStr(fmt.message)

\* C9 as stated: for a messageType that is no media type and a message longer
\* than 100 characters the output has length 103, is the first 100 characters
\* followed by the ellipsis, and is a prefix of the message; a message of at
\* most 100 characters is returned unchanged.
C9_AsStated ==
    TextCall =>
        IF Len(fmt.message.s) > TruncAt
        THEN /\ Len(fmt.result.s) = TruncAt + Len(Ellipsis)
             /\ fmt.result.s = SubSeq(fmt.message.s, 1, TruncAt) \o Ellipsis
             /\ IsPrefix(fmt.result.s, fmt.message.s)
        ELSE fmt.result = fmt.message

\* C9 (amended): for such a call and a message longer than 100 characters the
\* output has length 103 and is the first 100 characters of the message
\* followed by "..." (so its first 100 characters, not the whole output, are
\* a prefix of the message); a non-empty message of at most 100 characters is
\* returned unchanged; the empty message is returned unchanged by
\* src/server.js and replaced by "New message" by src/unnamed/part_000.
C9_Truncation ==
    TextCall =>
        IF Len(fmt.message.s) > TruncAt
        THEN /\ Len(fmt.result.s) = TruncAt + Len(Ellipsis)
             /\ fmt.result.s = SubSeq(fmt.message.s, 1, TruncAt) \o Ellipsis
             /\ IsPrefix(SubSeq(fmt.result.s, 1, TruncAt), fmt.message.s)
        ELSE IF Len(fmt.message.s) > 0 \/ variant = "server"
             THEN fmt.result = fmt.message
             ELSE fmt.result = NewMessage

C9_Witness ==
    /\ TextCall
    /\ Len(fmt.message.s) = TruncAt + 1
    /\ Len(fmt.result.s) = TruncAt + Len(Ellipsis)
    /\ fmt.messageType = TextT

\* ---------------------------------------------------------------- C10
\* C10: the sender is called at most once per request (no retry on any
\* failure), and only after, in this order, the five required fields were
\* found, the integration was found on, the receiver's profile was read and
\* exists, it has a token, and the Presence Gate let the request through; the
\* token handed to the sender is the one read from the store in this request.
C10_OneGuardedCall ==
    send.pc \in {"send", "done"} =>
        /\ send.calls <= 1
        /\ SenderAsked <=> send.calls = 1
        /\ SenderAsked =>
              /\ send.steps = <<"validated", "enabled", "get", "read", "exists",
                                "hasToken", "notSuppressed", "send">>
              /\ MissingFields(send.body) = {}
              /\ firebaseEnabled
              /\ send.userData.exists
              /\ Truthy(send.userData.data.fcmToken)
              /\ ~(/\ send.userData.data.isOnline = Bool(TRUE)
                   /\ send.userData.data.activeChatId = send.body.chatId)
              /\ send.fcmMessage.token = send.userData.data.fcmToken

\* the sender failed, was not called again, and the token it was given is the
\* one read, although the store holds another one by now
C10_Witness ==
    /\ Answered /\ send.outcome.kind = "senderError"
    /\ send.calls = 1
    /\ send.fcmMessage.token = TokA
    /\ users[U1].data.fcmToken = TokB

====
